---- MODULE Spec2Model ----
(***************************************************************************)
(* Model of the command proxy and output sanitizer of sui-cli-terminal     *)
(* (src-tauri/src): the sanitizer's three ordered regex rules, the key     *)
(* list decoder, the nine tauri commands and the shared AppState.          *)
(*                                                                         *)
(* Text is a sequence of one-character strings, so that the regex rules    *)
(* act on characters exactly as the regex crate does (leftmost-first,      *)
(* non-overlapping matches, scanned left to right).                        *)
(***************************************************************************)
EXTENDS Integers, Sequences, FiniteSets, TLC

VARIABLES
    text,          \* pure-function harness: the input text
    out1,          \* sanitize_output(text)
    out2,          \* sanitize_output(out1)
    keys,          \* parse_keys(text)
    stage,         \* "build" | "once" | "twice" | "parsed"
    nfrag,         \* number of fragments appended to text so far
    last_command,  \* AppState.last_command
    session_cache, \* AppState.session_cache
    call,          \* the command being served: operation, arguments, subprocess
    ret,           \* what the command returned to the caller
    pc,            \* per task: where it is inside execute_sui_command
    targs,         \* per task: the args of its invocation
    tproc,         \* per task: what its subprocess produced
    tret,          \* per task: the value returned
    holder         \* owner of the last_command mutex, 0 when free

vars == <<text, out1, out2, keys, stage, nfrag, last_command, session_cache,
          call, ret, pc, targs, tproc, tret, holder>>

hvars == <<text, out1, out2, keys, stage, nfrag>>

avars == <<last_command, session_cache, call, ret>>

cvars == <<pc, targs, tproc, tret, holder>>

\* ------------------------------------------------------------------
\* Character classes (ASCII part of the regex classes)
\* ------------------------------------------------------------------
Lower == {"a","b","c","d","e","f","g","h","i","j","k","l","m",
          "n","o","p","q","r","s","t","u","v","w","x","y","z"}

Upper == {"A","B","C","D","E","F","G","H","I","J","K","L","M",
          "N","O","P","Q","R","S","T","U","V","W","X","Y","Z"}

Digit == {"0","1","2","3","4","5","6","7","8","9"}

\* [a-zA-Z0-9]
Alnum == Lower \cup Upper \cup Digit

\* [a-fA-F0-9]
Hex == Digit \cup {"a","b","c","d","e","f","A","B","C","D","E","F"}

\* \w as used by \b
WordCh == Alnum \cup {"_"}

\* \s
Space == {" ", "\t", "\n", "\r"}

\* ------------------------------------------------------------------
\* Literals of the sanitizer
\* ------------------------------------------------------------------
PrivPrefix == <<"s","u","i","p","r","i","v","k","e","y">>

PrivMask == <<"*","*","*","*">>

MnemonicTag == <<"[","M","N","E","M","O","N","I","C","]">>

Dots == <<".",".",".">>

\* number of hex digits of an address: {64}
AddrHexLen == 64

\* ([a-z]+\s+){11,23}
MinGroups == 11

MaxGroups == 23

\* a sequence of n copies of the sequence s
Rep(s, n) == [i \in 1 .. n * Len(s) |-> s[((i - 1) % Len(s)) + 1]]

\* least element of a non-empty set of integers
Min(S) == CHOOSE m \in S : \A k \in S : m <= k

\* ------------------------------------------------------------------
\* Rule 1: suiprivkey[a-zA-Z0-9]+  ->  ****
\* ------------------------------------------------------------------
\* last index of the maximal run of characters of class cls starting at j
\* (j - 1 when t[j] is not in cls)
RunEnd(t, j, cls) ==
    LET stop == {k \in j .. Len(t) : t[k] \notin cls}
    IN  IF stop = {} THEN Len(t) ELSE Min(stop) - 1

\* the regex matches at position i
IsPrivAt(t, i) ==
    /\ i + Len(PrivPrefix) <= Len(t)
    /\ t[i] = PrivPrefix[1]
    /\ SubSeq(t, i, i + Len(PrivPrefix) - 1) = PrivPrefix
    /\ t[i + Len(PrivPrefix)] \in Alnum

\* replace_all from position i on: the text up to the leftmost match, the
\* replacement, and the same again after the end of the match
RECURSIVE ReplacePriv(_, _)
ReplacePriv(t, i) ==
    LET found == {k \in i .. Len(t) : IsPrivAt(t, k)}
    IN  IF found = {} THEN SubSeq(t, i, Len(t))
        ELSE LET m == Min(found)
             IN  SubSeq(t, i, m - 1) \o PrivMask
                     \o ReplacePriv(t, RunEnd(t, m + Len(PrivPrefix), Alnum) + 1)

\* ------------------------------------------------------------------
\* Rule 2: 0x[a-fA-F0-9]{64}  ->  0x + addr[2..6] + ... + addr[len-4..]
\* ------------------------------------------------------------------
IsAddrAt(t, i) ==
    /\ i + 1 + AddrHexLen <= Len(t)
    /\ t[i] = "0"
    /\ t[i + 1] = "x"
    /\ \A k \in 2 .. (1 + AddrHexLen) : t[i + k] \in Hex

\* the closure: format!("0x{}...{}", &addr[2..6], &addr[addr.len()-4..])
MaskMatch(addr) ==
    <<"0","x">> \o SubSeq(addr, 3, 6) \o Dots \o SubSeq(addr, Len(addr) - 3, Len(addr))

RECURSIVE ReplaceAddr(_, _)
ReplaceAddr(t, i) ==
    LET found == {k \in i .. Len(t) : IsAddrAt(t, k)}
    IN  IF found = {} THEN SubSeq(t, i, Len(t))
        ELSE LET m == Min(found)
             IN  SubSeq(t, i, m - 1) \o MaskMatch(SubSeq(t, m, m + 1 + AddrHexLen))
                     \o ReplaceAddr(t, m + 2 + AddrHexLen)

\* ------------------------------------------------------------------
\* Rule 3: \b([a-z]+\s+){11,23}[a-z]+\b  ->  [MNEMONIC]
\* ------------------------------------------------------------------
\* \b before a lowercase letter at i
WordStartAt(t, i) ==
    /\ i <= Len(t)
    /\ t[i] \in Lower
    /\ (i = 1 \/ t[i - 1] \notin WordCh)

\* MnemonicEnd with the bounds of the repetition taken as word counts
RECURSIVE MnemonicEndGroupsAsWords(_, _, _, _)
MnemonicEndGroupsAsWords(t, j, k, best) ==
    LET e    == RunEnd(t, j, Lower)
        atb  == e = Len(t) \/ t[e + 1] \notin WordCh
        nb   == IF k >= MinGroups /\ atb THEN e ELSE best
        s    == RunEnd(t, e + 1, Space)
    IN  IF k >= MaxGroups THEN nb
        ELSE IF s > e /\ s < Len(t) /\ t[s + 1] \in Lower
             THEN MnemonicEndGroupsAsWords(t, s + 1, k + 1, nb)
             ELSE nb

\* j is the first letter of word number k of a chain that started at a
\* word boundary.  The result is the end of the match the regex prefers:
\* the last word k' with MinGroups + 1 <= k' <= MaxGroups + 1 that ends at
\* a word boundary (greedy repetition, then backtracking), 0 if there is
\* none.  best is the preferred end among the words before k.
RECURSIVE MnemonicEnd(_, _, _, _)
MnemonicEnd(t, j, k, best) ==
    LET e    == RunEnd(t, j, Lower)
        atb  == e = Len(t) \/ t[e + 1] \notin WordCh
        nb   == IF k >= MinGroups + 1 /\ atb THEN e ELSE best
        s    == RunEnd(t, e + 1, Space)
    IN  IF k >= MaxGroups + 1 THEN nb
        ELSE IF s > e /\ s < Len(t) /\ t[s + 1] \in Lower
             THEN MnemonicEnd(t, s + 1, k + 1, nb)
             ELSE nb

\* end of the match starting at i, 0 when the regex does not match there
MnemonicAt(t, i) ==
    IF WordStartAt(t, i) THEN MnemonicEnd(t, i, 1, 0) ELSE 0

RECURSIVE ReplaceMnemonic(_, _)
ReplaceMnemonic(t, i) ==
    LET found == {k \in i .. Len(t) : MnemonicAt(t, k) > 0}
    IN  IF found = {} THEN SubSeq(t, i, Len(t))
        ELSE LET m == Min(found)
             IN  SubSeq(t, i, m - 1) \o MnemonicTag
                     \o ReplaceMnemonic(t, MnemonicAt(t, m) + 1)

\* ------------------------------------------------------------------
\* sanitize_output: the three rules in order
\* ------------------------------------------------------------------
sanitize_output(t) ==
    ReplaceMnemonic(ReplaceAddr(ReplacePriv(t, 1), 1), 1)

\* a substring of t matches the given rule
HasPriv(t) == \E i \in 1 .. Len(t) : IsPrivAt(t, i)

HasAddr(t) == \E i \in 1 .. Len(t) : IsAddrAt(t, i)

HasMnemonic(t) == \E i \in 1 .. Len(t) : MnemonicAt(t, i) > 0

HasSecret(t) == HasPriv(t) \/ HasAddr(t) \/ HasMnemonic(t)

\* ------------------------------------------------------------------
\* parse_keys: serde_json::from_str, then the line fallback
\* ------------------------------------------------------------------
\* A serde_json::Value is [k |-> kind, v |-> payload]: "arr" (a sequence of
\* Values), "num", "str", "lit" (the characters), "obj" (a sequence of
\* <<field name, Value>>).  The grammar is JSON restricted to arrays,
\* strings without escapes, unsigned integers and true/false/null; any
\* other character is a syntax error, as it is for serde_json on the
\* texts drawn here (no '{', '-', '.', 'e', '\').
JsonWs == {" ", "\t", "\n", "\r"}

JsonControl == {"\t", "\n", "\r"}

JsonLiterals == {<<"t","r","u","e">>, <<"f","a","l","s","e">>, <<"n","u","l","l">>}

JsonFail == [ok |-> FALSE, val |-> [k |-> "lit", v |-> <<>>], nxt |-> 0]

JsonOk(kind, payload, next) == [ok |-> TRUE, val |-> [k |-> kind, v |-> payload], nxt |-> next]

SkipWs(t, i) == RunEnd(t, i, JsonWs) + 1

\* index of the quote closing a string whose content starts at j, 0 when a
\* control character, a backslash or the end of the text comes first
StrClose(t, j) ==
    LET stop == {k \in j .. Len(t) : t[k] \in JsonControl \cup {"\\", "\""}}
    IN  IF stop = {} THEN 0
        ELSE IF t[Min(stop)] = "\"" THEN Min(stop) ELSE 0

\* end of the integer starting at the digit t[i]: 0 | [1-9][0-9]*
NumEnd(t, i) == IF t[i] = "0" THEN i ELSE RunEnd(t, i, Digit)

RECURSIVE ParseValue(_, _)
RECURSIVE ParseElems(_, _, _, _)
\* the value starting at t[i] (whitespace already skipped)
ParseValue(t, i) ==
    IF i > Len(t) THEN JsonFail
    ELSE IF t[i] = "[" THEN ParseElems(t, SkipWs(t, i + 1), <<>>, TRUE)
    ELSE IF t[i] = "\""
         THEN LET c == StrClose(t, i + 1)
              IN  IF c = 0 THEN JsonFail ELSE JsonOk("str", SubSeq(t, i + 1, c - 1), c + 1)
    ELSE IF t[i] \in Digit
         THEN LET e == NumEnd(t, i) IN JsonOk("num", SubSeq(t, i, e), e + 1)
    ELSE IF \E l \in JsonLiterals : i + Len(l) - 1 <= Len(t) /\ SubSeq(t, i, i + Len(l) - 1) = l
         THEN LET l == CHOOSE l \in JsonLiterals :
                           i + Len(l) - 1 <= Len(t) /\ SubSeq(t, i, i + Len(l) - 1) = l
              IN  JsonOk("lit", l, i + Len(l))
    ELSE JsonFail

\* the elements of an array from t[i] on; acc holds those already parsed
ParseElems(t, i, acc, first) ==
    IF i > Len(t) THEN JsonFail
    ELSE IF first /\ t[i] = "]" THEN JsonOk("arr", acc, i + 1)
    ELSE LET r == ParseValue(t, i)
             j == SkipWs(t, r.nxt)
         IN  IF ~r.ok \/ j > Len(t) THEN JsonFail
             ELSE IF t[j] = "," THEN ParseElems(t, SkipWs(t, j + 1), Append(acc, r.val), FALSE)
             ELSE IF t[j] = "]" THEN JsonOk("arr", Append(acc, r.val), j + 1)
             ELSE JsonFail

\* serde_json::from_str::<Value>: one value, then only whitespace
from_str(t) ==
    LET r == ParseValue(t, SkipWs(t, 1))
    IN  IF r.ok /\ SkipWs(t, r.nxt) > Len(t) THEN r ELSE JsonFail

\* index of the first "\n" at or after i, Len(t) + 1 when there is none
LineEnd(t, i) ==
    LET nl == {k \in i .. Len(t) : t[k] = "\n"}
    IN  IF nl = {} THEN Len(t) + 1 ELSE Min(nl)

\* str::lines: split at "\n"; no empty last line after a final "\n"
RECURSIVE Lines(_)
Lines(t) ==
    IF t = <<>> THEN <<>>
    ELSE LET e == LineEnd(t, 1)
         IN  <<SubSeq(t, 1, e - 1)>> \o Lines(SubSeq(t, e + 1, Len(t)))

\* line.contains("0x")
Contains0x(line) ==
    \E i \in 1 .. Len(line) - 1 : line[i] = "0" /\ line[i + 1] = "x"

\* json!({"raw": line})
RawRecord(line) == [k |-> "obj", v |-> << <<"raw", [k |-> "str", v |-> line]>> >>]

\* the for loop over output.lines()
RECURSIVE RawRecords(_, _)
RawRecords(ls, i) ==
    IF i > Len(ls) THEN <<>>
    ELSE IF Contains0x(ls[i]) THEN <<RawRecord(ls[i])>> \o RawRecords(ls, i + 1)
    ELSE RawRecords(ls, i + 1)

\* parse_keys that returns whatever JSON it parsed, an array or not
parse_keys_any_json(output) ==
    LET json == from_str(output)
    IN  IF json.ok
        THEN [ok |-> TRUE, val |-> IF json.val.k = "arr" THEN json.val.v ELSE <<>>]
        ELSE [ok |-> TRUE, val |-> RawRecords(Lines(output), 1)]

\* parse_keys: Result<Vec<Value>, String>
parse_keys(output) ==
    LET json == from_str(output)
    IN  IF json.ok /\ json.val.k = "arr"
        THEN [ok |-> TRUE, val |-> json.val.v]
        ELSE [ok |-> TRUE, val |-> RawRecords(Lines(output), 1)]

\* ------------------------------------------------------------------
\* Values of the variables a specification does not use
\* ------------------------------------------------------------------
NoCall == [op |-> "none"]

NoRet == [kind |-> "none"]

\* HashMap::new()
EmptyCache == << >>

\* String::new()
EmptyString == << >>

HarnessIdle ==
    /\ text = <<>> /\ out1 = <<>> /\ out2 = <<>> /\ keys = <<>>
    /\ stage = "idle" /\ nfrag = 0

AppIdle ==
    /\ last_command = EmptyString /\ session_cache = EmptyCache
    /\ call = NoCall /\ ret = NoRet

TasksIdle ==
    /\ pc = << >> /\ targs = << >> /\ tproc = << >> /\ tret = << >> /\ holder = 0

\* ------------------------------------------------------------------
\* Sanitizer harness: texts built from fragments, sanitized twice
\* ------------------------------------------------------------------
\* most fragments a text is built from
MaxFrags == 4

\* eleven more lowercase words, each after a space
Tail11 == Rep(<<" ", "b">>, MinGroups)

Fragments ==
    { PrivPrefix, <<"A">>, <<" ">>, <<".">>, <<"0", "x">>,
      Rep(<<"a">>, AddrHexLen - 1), Rep(<<"a">>, AddrHexLen), Tail11 }

SanInit ==
    /\ text = <<>> /\ out1 = <<>> /\ out2 = <<>> /\ keys = <<>>
    /\ stage = "build" /\ nfrag = 0
    /\ AppIdle /\ TasksIdle

AppendFragment ==
    /\ stage = "build" /\ nfrag < MaxFrags
    /\ \E f \in Fragments : text' = text \o f
    /\ nfrag' = nfrag + 1
    /\ UNCHANGED <<out1, out2, keys, stage, avars, cvars>>

SanitizeOnce ==
    /\ stage = "build"
    /\ out1' = sanitize_output(text)
    /\ stage' = "once"
    /\ UNCHANGED <<text, out2, keys, nfrag, avars, cvars>>

SanitizeTwice ==
    /\ stage = "once"
    /\ out2' = sanitize_output(out1)
    /\ stage' = "twice"
    /\ UNCHANGED <<text, out1, keys, nfrag, avars, cvars>>

SanNext == AppendFragment \/ SanitizeOnce \/ SanitizeTwice

SanSpec == SanInit /\ [][SanNext]_vars

\* ------------------------------------------------------------------
\* Word run harness: the text is exactly a run of n lowercase words
\* ------------------------------------------------------------------
\* longest run drawn
MaxRunWords == 26

RunWordChoices == { <<"a">>, <<"k", "e", "y">>, <<"z", "z">> }

RunSeparators == { <<" ">>, <<" ", " ">>, <<"\n">>, <<"\t", " ">> }

\* n copies of the word w separated by sep
WordRun(n, w, sep) == IF n <= 0 THEN <<>> ELSE w \o Rep(sep \o w, n - 1)

RunInit ==
    /\ \E n \in 1 .. MaxRunWords : \E w \in RunWordChoices : \E sep \in RunSeparators :
           text = WordRun(n, w, sep)
    /\ out1 = <<>> /\ out2 = <<>> /\ keys = <<>>
    /\ stage = "build" /\ nfrag = 0
    /\ AppIdle /\ TasksIdle

RunNext == SanitizeOnce \/ SanitizeTwice

RunSpec == RunInit /\ [][RunNext]_vars

\* ------------------------------------------------------------------
\* Decoder harness: texts over a small alphabet, decoded by parse_keys
\* ------------------------------------------------------------------
\* longest text decoded
MaxParseLen == 5

ParseAlphabet == { "[", "]", ",", "0", "1", "x", "\"", "\n" }

ParseInit ==
    /\ text = <<>> /\ out1 = <<>> /\ out2 = <<>> /\ keys = <<>>
    /\ stage = "build" /\ nfrag = 0
    /\ AppIdle /\ TasksIdle

AppendChar ==
    /\ stage = "build" /\ Len(text) < MaxParseLen
    /\ \E c \in ParseAlphabet : text' = Append(text, c)
    /\ UNCHANGED <<out1, out2, keys, stage, nfrag, avars, cvars>>

DecodeKeys ==
    /\ stage = "build"
    /\ keys' = parse_keys(text)
    /\ stage' = "parsed"
    /\ UNCHANGED <<text, out1, out2, nfrag, avars, cvars>>

ParseNext == AppendChar \/ DecodeKeys

ParseSpec == ParseInit /\ [][ParseNext]_vars

\* ------------------------------------------------------------------
\* The subprocess: std::process::Command::output()
\* ------------------------------------------------------------------
\* a byte sequence that is not UTF-8, and what from_utf8_lossy puts for it
InvalidByte == "\\xFF"

ReplacementChar == "U+FFFD"

from_utf8_lossy(bytes) ==
    [i \in DOMAIN bytes |-> IF bytes[i] = InvalidByte THEN ReplacementChar ELSE bytes[i]]

\* io::Error kinds output() fails with
SpawnErrors == {"NotFound", "PermissionDenied"}

\* ExitStatus::code(): Some(code), or None when a signal ended the process
ExitStatuses == {[some |-> TRUE, v |-> 0], [some |-> TRUE, v |-> 1], [some |-> FALSE, v |-> 0]}

\* output.status.code().unwrap_or(-1), with 0 in place of -1
exit_code_or_zero(status) == IF status.some THEN status.v ELSE 0

\* output.status.code().unwrap_or(-1)
exit_code(status) == IF status.some THEN status.v ELSE -1

KeyToken == PrivPrefix \o <<"A">>

FullAddress == <<"0", "x">> \o Rep(<<"a">>, AddrHexLen)

\* a key token, a space and an address
KeyThenAddress == KeyToken \o <<" ">> \o FullAddress

\* what the subprocess may write to stdout
Streams ==
    { <<>>,
      KeyThenAddress,
      KeyThenAddress \o Tail11,
      <<"b">> \o Tail11,
      <<"[", "\"", "0", "x", "1", "\"", ",", "1", "]">>,
      <<" ">> \o FullAddress \o <<"\n">>,
      <<"o", InvalidByte, "k", "\n", "0", "x">> }

\* what the subprocess may write to stderr
ErrStreams == { <<>>, <<"e", "r", "r", " ">> \o KeyToken }

Outputs ==
    {[spawned |-> FALSE, err |-> e] : e \in SpawnErrors}
        \cup {[spawned |-> TRUE, stdout |-> o, stderr |-> e, status |-> c] :
                  o \in Streams, e \in ErrStreams, c \in ExitStatuses}

\* ------------------------------------------------------------------
\* The tauri commands
\* ------------------------------------------------------------------
\* most arguments of an execute_sui_command call
MaxArgs == 2

\* largest elapsed time, in ms
MaxDuration == 1

ArgWords == { <<"g", "a", "s">>, <<"-", "h">> }

ArgVecs == UNION {[1 .. n -> ArgWords] : n \in 0 .. MaxArgs}

Schemes == { <<"e", "d", "2", "5", "5", "1", "9">> }

WordLengths == {[some |-> FALSE, v |-> 0], [some |-> TRUE, v |-> 12]}

Epochs == {[some |-> FALSE, v |-> 0], [some |-> TRUE, v |-> 5]}

Paths == { <<"f">> }

OutPaths == {[some |-> FALSE, v |-> <<>>], [some |-> TRUE, v |-> <<"o">>]}

BlobIds == { <<"i", "d">> }

SUI == <<"s", "u", "i">>

WALRUS == <<"w", "a", "l", "r", "u", "s">>

KEYTOOL == <<"k", "e", "y", "t", "o", "o", "l">>

CLIENT == <<"c", "l", "i", "e", "n", "t">>

LIST == <<"l", "i", "s", "t">>

\* u32::to_string
RECURSIVE to_string(_)
to_string(n) ==
    LET d == <<"0", "1", "2", "3", "4", "5", "6", "7", "8", "9">>
    IN  IF n < 10 THEN <<d[n + 1]>> ELSE to_string(n \div 10) \o <<d[(n % 10) + 1]>>

\* args.join(" ")
RECURSIVE join(_)
join(args) ==
    IF args = <<>> THEN <<>>
    ELSE IF Len(args) = 1 THEN args[1]
    ELSE args[1] \o <<" ">> \o join(Tail(args))

\* str::trim
trim(t) ==
    LET solid == {k \in 1 .. Len(t) : t[k] \notin Space}
    IN  IF solid = {} THEN <<>>
        ELSE SubSeq(t, Min(solid), CHOOSE m \in solid : \A k \in solid : k <= m)

\* Err(format!("<what>: {}", e))
Failure(what, e) == [kind |-> "err", msg |-> <<what, e>>]

\* Ok(CommandOutput { stdout, stderr, exit_code, duration_ms: 0 }) of the raw streams
RawOutput(o) ==
    [kind |-> "output",
     stdout |-> from_utf8_lossy(o.stdout),
     stderr |-> from_utf8_lossy(o.stderr),
     exit_code |-> exit_code(o.status),
     duration_ms |-> 0]

Init ==
    /\ last_command = EmptyString
    /\ session_cache = EmptyCache
    /\ call = NoCall
    /\ ret = NoRet
    /\ HarnessIdle /\ TasksIdle

\* what every command leaves alone
Untouched == UNCHANGED <<session_cache, hvars, cvars>>

\* execute_sui_command with last_command written before output() is known to
\* have succeeded
ExecuteSuiCommandWriteFirst ==
    /\ ret = NoRet
    /\ \E args \in ArgVecs, o \in Outputs, d \in 0 .. MaxDuration :
        /\ call' = [op |-> "execute_sui_command", program |-> SUI, argv |-> args,
                    args |-> args, out |-> o]
        /\ last_command' = join(args)
        /\ IF ~o.spawned
           THEN ret' = Failure("Failed to execute", o.err)
           ELSE ret' = [kind |-> "output",
                        stdout |-> sanitize_output(from_utf8_lossy(o.stdout)),
                        stderr |-> sanitize_output(from_utf8_lossy(o.stderr)),
                        exit_code |-> exit_code(o.status),
                        duration_ms |-> d]
    /\ Untouched

ExecuteSuiCommand ==
    /\ ret = NoRet
    /\ \E args \in ArgVecs, o \in Outputs, d \in 0 .. MaxDuration :
        /\ call' = [op |-> "execute_sui_command", program |-> SUI, argv |-> args,
                    args |-> args, out |-> o]
        /\ IF ~o.spawned
           THEN /\ ret' = Failure("Failed to execute", o.err)
                /\ UNCHANGED last_command
           ELSE /\ last_command' = join(args)
                /\ ret' = [kind |-> "output",
                           stdout |-> sanitize_output(from_utf8_lossy(o.stdout)),
                           stderr |-> sanitize_output(from_utf8_lossy(o.stderr)),
                           exit_code |-> exit_code(o.status),
                           duration_ms |-> d]
    /\ Untouched

ListKeys ==
    /\ ret = NoRet
    /\ \E o \in Outputs :
        /\ call' = [op |-> "list_keys", program |-> SUI, argv |-> <<KEYTOOL, LIST>>, out |-> o]
        /\ IF ~o.spawned
           THEN ret' = Failure("Failed to list keys", o.err)
           ELSE LET parsed == parse_keys(from_utf8_lossy(o.stdout))
                IN  IF ~parsed.ok
                    THEN ret' = Failure("Parse error", parsed.val)
                    ELSE ret' = [kind |-> "keys", keys |-> parsed.val]
    /\ UNCHANGED last_command /\ Untouched

GenerateKey ==
    /\ ret = NoRet
    /\ \E scheme \in Schemes, word_length \in WordLengths, o \in Outputs :
        /\ call' = [op |-> "generate_key", program |-> SUI,
                    argv |-> <<KEYTOOL, <<"g","e","n","e","r","a","t","e">>, scheme>>
                             \o (IF word_length.some
                                 THEN << <<"-","-","w","o","r","d","-","l","e","n","g","t","h">>,
                                         to_string(word_length.v) >>
                                 ELSE <<>>),
                    out |-> o]
        /\ ret' = IF ~o.spawned THEN Failure("Failed to generate key", o.err) ELSE RawOutput(o)
    /\ UNCHANGED last_command /\ Untouched

SetActiveKey ==
    /\ ret = NoRet
    /\ \E address \in {FullAddress}, o \in Outputs :
        /\ call' = [op |-> "set_active_key", program |-> SUI,
                    argv |-> <<CLIENT, <<"s","w","i","t","c","h">>,
                               <<"-","-","a","d","d","r","e","s","s">>, address>>,
                    out |-> o]
        /\ ret' = IF ~o.spawned THEN Failure("Failed to switch key", o.err) ELSE RawOutput(o)
    /\ UNCHANGED last_command /\ Untouched

GetActiveAddress ==
    /\ ret = NoRet
    /\ \E o \in Outputs :
        /\ call' = [op |-> "get_active_address", program |-> SUI,
                    argv |-> <<CLIENT, <<"a","c","t","i","v","e","-","a","d","d","r","e","s","s">> >>,
                    out |-> o]
        /\ ret' = IF ~o.spawned THEN Failure("Failed", o.err)
                  ELSE [kind |-> "string", value |-> trim(from_utf8_lossy(o.stdout))]
    /\ UNCHANGED last_command /\ Untouched

GetEnvironment ==
    /\ ret = NoRet
    /\ \E o \in Outputs :
        /\ call' = [op |-> "get_environment", program |-> SUI,
                    argv |-> <<CLIENT, <<"e","n","v","s">> >>, out |-> o]
        /\ ret' = IF ~o.spawned THEN Failure("Failed", o.err)
                  ELSE [kind |-> "json",
                        value |-> [k |-> "obj",
                                   v |-> << <<"envs", [k |-> "str", v |-> from_utf8_lossy(o.stdout)]>> >>]]
    /\ UNCHANGED last_command /\ Untouched

UploadBlob ==
    /\ ret = NoRet
    /\ \E path \in Paths, epochs \in Epochs, o \in Outputs :
        /\ call' = [op |-> "upload_blob", program |-> WALRUS,
                    argv |-> << <<"s","t","o","r","e">>, path >>
                             \o (IF epochs.some
                                 THEN << <<"-","-","e","p","o","c","h","s">>, to_string(epochs.v) >>
                                 ELSE <<>>),
                    out |-> o]
        /\ ret' = IF ~o.spawned THEN Failure("Failed to upload blob", o.err) ELSE RawOutput(o)
    /\ UNCHANGED last_command /\ Untouched

DownloadBlob ==
    /\ ret = NoRet
    /\ \E blob_id \in BlobIds, output_path \in OutPaths, o \in Outputs :
        /\ call' = [op |-> "download_blob", program |-> WALRUS,
                    argv |-> << <<"r","e","a","d">>, blob_id >>
                             \o (IF output_path.some
                                 THEN << <<"-","-","o","u","t">>, output_path.v >>
                                 ELSE <<>>),
                    out |-> o]
        /\ ret' = IF ~o.spawned THEN Failure("Failed to download blob", o.err) ELSE RawOutput(o)
    /\ UNCHANGED last_command /\ Untouched

ListBlobs ==
    /\ ret = NoRet
    /\ \E o \in Outputs :
        /\ call' = [op |-> "list_blobs", program |-> WALRUS, argv |-> <<LIST>>, out |-> o]
        /\ ret' = IF ~o.spawned THEN Failure("Failed to list blobs", o.err) ELSE RawOutput(o)
    /\ UNCHANGED last_command /\ Untouched

\* the caller takes the response; the next request may follow
Deliver ==
    /\ ret # NoRet
    /\ call' = NoCall
    /\ ret' = NoRet
    /\ UNCHANGED last_command /\ Untouched

Next ==
    \/ ExecuteSuiCommand
    \/ ListKeys
    \/ GenerateKey
    \/ SetActiveKey
    \/ GetActiveAddress
    \/ GetEnvironment
    \/ UploadBlob
    \/ DownloadBlob
    \/ ListBlobs
    \/ Deliver

Spec == Init /\ [][Next]_vars

\* ------------------------------------------------------------------
\* Concurrent execute_sui_command invocations, one per task
\* ------------------------------------------------------------------
\* number of concurrent invocations
NumTasks == 2

Tasks == 1 .. NumTasks

TaskArgs == { << <<"g", "a", "s">> >>, << <<"g", "a", "s">>, <<"-", "h">> >> }

TaskOutputs ==
    { [spawned |-> TRUE, stdout |-> KeyToken, stderr |-> <<>>,
       status |-> [some |-> TRUE, v |-> 0]],
      [spawned |-> TRUE, stdout |-> <<"o", "k">>, stderr |-> <<"e">>,
       status |-> [some |-> FALSE, v |-> 0]] }

NoProc == [spawned |-> FALSE]

ConcInit ==
    /\ pc = [i \in Tasks |-> "idle"]
    /\ targs = [i \in Tasks |-> <<>>]
    /\ tproc = [i \in Tasks |-> NoProc]
    /\ tret = [i \in Tasks |-> NoRet]
    /\ holder = 0
    /\ AppIdle /\ HarnessIdle

ConcUntouched == UNCHANGED <<session_cache, call, ret, hvars>>

\* the mutex locked before output() and kept while the subprocess runs
SpawnHoldingLock(i) ==
    /\ pc[i] = "idle"
    /\ holder = 0
    /\ holder' = i
    /\ \E args \in TaskArgs : targs' = [targs EXCEPT ![i] = args]
    /\ pc' = [pc EXCEPT ![i] = "waiting"]
    /\ UNCHANGED <<tproc, tret, last_command>> /\ ConcUntouched

\* the invocation starts and output() spawns the subprocess
Spawn(i) ==
    /\ pc[i] = "idle"
    /\ \E args \in TaskArgs : targs' = [targs EXCEPT ![i] = args]
    /\ pc' = [pc EXCEPT ![i] = "waiting"]
    /\ UNCHANGED <<tproc, tret, holder, last_command>> /\ ConcUntouched

\* the invocation starts and output() fails: Err is returned at once
SpawnFail(i) ==
    /\ pc[i] = "idle"
    /\ \E args \in TaskArgs : targs' = [targs EXCEPT ![i] = args]
    /\ \E e \in SpawnErrors : tret' = [tret EXCEPT ![i] = Failure("Failed to execute", e)]
    /\ pc' = [pc EXCEPT ![i] = "returned"]
    /\ UNCHANGED <<tproc, holder, last_command>> /\ ConcUntouched

\* the subprocess exits; its streams are captured and sanitized
Exit(i) ==
    /\ pc[i] = "waiting"
    /\ \E o \in TaskOutputs :
           tproc' = [tproc EXCEPT ![i] =
                        [out |-> o,
                         sanitized_stdout |-> sanitize_output(from_utf8_lossy(o.stdout)),
                         sanitized_stderr |-> sanitize_output(from_utf8_lossy(o.stderr))]]
    /\ pc' = [pc EXCEPT ![i] = "exited"]
    /\ UNCHANGED <<targs, tret, holder, last_command>> /\ ConcUntouched

\* state.last_command.lock() without waiting for the owner
LockWithoutWaiting(i) ==
    /\ pc[i] = "exited"
    /\ holder' = i
    /\ pc' = [pc EXCEPT ![i] = "locked"]
    /\ UNCHANGED <<targs, tproc, tret, last_command>> /\ ConcUntouched

\* state.last_command.lock(): blocks while another task owns the mutex
Lock(i) ==
    /\ pc[i] = "exited"
    /\ holder = 0
    /\ holder' = i
    /\ pc' = [pc EXCEPT ![i] = "locked"]
    /\ UNCHANGED <<targs, tproc, tret, last_command>> /\ ConcUntouched

\* *cmd = args.join(" ")
Write(i) ==
    /\ pc[i] = "locked"
    /\ last_command' = join(targs[i])
    /\ pc' = [pc EXCEPT ![i] = "written"]
    /\ UNCHANGED <<targs, tproc, tret, holder>> /\ ConcUntouched

\* the guard goes out of scope at the end of the if let
Unlock(i) ==
    /\ pc[i] = "written"
    /\ holder' = 0
    /\ pc' = [pc EXCEPT ![i] = "unlocked"]
    /\ UNCHANGED <<targs, tproc, tret, last_command>> /\ ConcUntouched

\* Ok(CommandOutput { .. })
Return(i) ==
    /\ pc[i] = "unlocked"
    /\ \E d \in 0 .. MaxDuration :
           tret' = [tret EXCEPT ![i] =
                       [kind |-> "output",
                        stdout |-> tproc[i].sanitized_stdout,
                        stderr |-> tproc[i].sanitized_stderr,
                        exit_code |-> exit_code(tproc[i].out.status),
                        duration_ms |-> d]]
    /\ pc' = [pc EXCEPT ![i] = "returned"]
    /\ UNCHANGED <<targs, tproc, holder, last_command>> /\ ConcUntouched

ConcNext ==
    \E i \in Tasks :
        \/ Spawn(i)
        \/ SpawnFail(i)
        \/ Exit(i)
        \/ Lock(i)
        \/ Write(i)
        \/ Unlock(i)
        \/ Return(i)

\* Every step of the task's own thread is eventually taken; nothing makes
\* a subprocess exit, so Exit has no fairness.
ConcFairness ==
    \A i \in Tasks :
        /\ WF_vars(Lock(i))
        /\ WF_vars(Write(i))
        /\ WF_vars(Unlock(i))
        /\ WF_vars(Return(i))

ConcSpec == ConcInit /\ [][ConcNext]_vars /\ ConcFairness

\* ------------------------------------------------------------------
\* Claims about the sanitizer
\* ------------------------------------------------------------------
\* C2: the text sanitize returns contains no substring matching any of
\* the three rules (private-key token, 0x + 64 hex, run of 12 to 24
\* lowercase words).
C2_OutputHasNoSecret ==
    stage \in {"once", "twice"} => ~HasSecret(out1)

\* C3: sanitize is idempotent: a second pass changes nothing.
C3_Idempotent ==
    stage = "twice" => out2 = out1

Contains(t, sub) ==
    \E k \in 1 .. Len(t) - Len(sub) + 1 : SubSeq(t, k, k + Len(sub) - 1) = sub

\* a string inside the Value v matches a secret pattern
RECURSIVE ValueHasSecret(_)
ValueHasSecret(v) ==
    CASE v.k = "str" -> HasSecret(v.v)
      [] v.k = "arr" -> \E i \in DOMAIN v.v : ValueHasSecret(v.v[i])
      [] v.k = "obj" -> \E i \in DOMAIN v.v : ValueHasSecret(v.v[i][2])
      [] OTHER -> FALSE

\* C1: whatever the operation and whatever the subprocess wrote, no value
\* returned to the caller (stdout, stderr, key records, active address,
\* environment value) contains a match of a secret pattern.
C1_NoSecretCrossesBoundary ==
    /\ ret.kind = "output" => ~HasSecret(ret.stdout) /\ ~HasSecret(ret.stderr)
    /\ ret.kind = "keys" => \A i \in DOMAIN ret.keys : ~ValueHasSecret(ret.keys[i])
    /\ ret.kind = "string" => ~HasSecret(ret.value)
    /\ ret.kind = "json" => ~ValueHasSecret(ret.value)

\* C5: executeCommand returns the sanitized streams; when the raw stdout
\* holds a private-key token followed by a 0x + 64 hex address, the
\* returned stdout holds the mask '****' and the address masked as
\* 0x + first 4 + '...' + last 4, and the raw token is gone.
C5_KeyThenAddressMasked ==
    (call.op = "execute_sui_command" /\ ret.kind = "output") =>
        LET raw == from_utf8_lossy(call.out.stdout)
        IN  /\ ret.stdout = sanitize_output(raw)
            /\ ret.stderr = sanitize_output(from_utf8_lossy(call.out.stderr))
            /\ \A i \in 1 .. Len(raw) : \A j \in 1 .. Len(raw) :
                   LET e == RunEnd(raw, i + Len(PrivPrefix), Alnum)
                   IN  (IsPrivAt(raw, i) /\ j > e /\ IsAddrAt(raw, j)) =>
                           /\ Contains(ret.stdout, <<"*", "*", "*", "*">>)
                           /\ Contains(ret.stdout,
                                       <<"0", "x">> \o SubSeq(raw, j + 2, j + 5)
                                           \o <<".", ".", ".">> \o SubSeq(raw, j + 62, j + 65))
                           /\ ~Contains(ret.stdout, SubSeq(raw, i, e))

\* the operations that return a CommandOutput
CommandOutputOps ==
    {"execute_sui_command", "generate_key", "set_active_key",
     "upload_blob", "download_blob", "list_blobs"}

\* C8 as stated: an operation returns an error exactly when its subprocess
\* could not be spawned, and then only a message; a spawned subprocess
\* yields a successful result carrying its exit code (-1 when none).
C8_ErrorIffSpawnFailsCodeCarried ==
    ret # NoRet =>
        /\ (ret.kind = "err") <=> ~call.out.spawned
        /\ ret.kind = "err" => DOMAIN ret = {"kind", "msg"}
        /\ call.out.spawned =>
               /\ "exit_code" \in DOMAIN ret
               /\ ret.exit_code = IF call.out.status.some THEN call.out.status.v ELSE -1

\* C8 amended: as above, but the result carries the exit code only for the
\* six operations that return a CommandOutput; list_keys,
\* get_active_address and get_environment return their value without it.
C8_ErrorIffSpawnFails ==
    ret # NoRet =>
        /\ (ret.kind = "err") <=> ~call.out.spawned
        /\ ret.kind = "err" => DOMAIN ret = {"kind", "msg"}
        /\ (call.out.spawned /\ call.op \in CommandOutputOps) =>
               /\ ret.kind = "output"
               /\ ret.exit_code = IF call.out.status.some THEN call.out.status.v ELSE -1
        /\ (call.out.spawned /\ call.op \notin CommandOutputOps) =>
               /\ ret.kind \in {"keys", "string", "json"}
               /\ "exit_code" \notin DOMAIN ret

\* upload_blob whose subprocess was killed by a signal returned -1
C8_Witness ==
    /\ call.op = "upload_blob" /\ call.out.spawned /\ ~call.out.status.some
    /\ ret.kind = "output" /\ ret.exit_code = -1

\* the words of args from the i-th on, each but the first after one space
RECURSIVE SpacedFrom(_, _)
SpacedFrom(args, i) ==
    IF i > Len(args) THEN <<>>
    ELSE (IF i > 1 THEN <<" ">> ELSE <<>>) \o args[i] \o SpacedFrom(args, i + 1)

\* C9: a step changes last_command only when it is an execute_sui_command
\* whose subprocess was spawned, and then to the arguments joined by
\* single spaces whatever the exit code; a failed spawn and every other
\* operation leave it alone; the session cache never changes and stays
\* empty.
C9_OnlyExecuteWritesState ==
    [][ /\ session_cache' = session_cache
        /\ Len(session_cache') = 0
        /\ IF ret = NoRet /\ ret' # NoRet
              /\ call'.op = "execute_sui_command" /\ call'.out.spawned
           THEN last_command' = SpacedFrom(call'.args, 1)
           ELSE last_command' = last_command ]_vars

\* execute_sui_command with a non-zero exit code has recorded its arguments
C9_Witness ==
    /\ call.op = "execute_sui_command" /\ call.out.spawned
    /\ call.out.status = [some |-> TRUE, v |-> 1]
    /\ call.args = << <<"g", "a", "s">>, <<"-", "h">> >>
    /\ last_command = <<"g", "a", "s", " ", "-", "h">>

\* ------------------------------------------------------------------
\* Claims about concurrent invocations
\* ------------------------------------------------------------------
\* last_command is whole, the critical section holds one task, and a
\* returned result is built from the task's own subprocess
C6_StateInv ==
    /\ \/ last_command = EmptyString
       \/ \E i \in Tasks : /\ pc[i] \in {"written", "unlocked", "returned"}
                           /\ tret[i].kind # "err"
                           /\ last_command = SpacedFrom(targs[i], 1)
    /\ \A i \in Tasks : \A j \in Tasks :
           (pc[i] \in {"locked", "written"} /\ pc[j] \in {"locked", "written"}) => i = j
    /\ \A i \in Tasks :
           (pc[i] = "returned" /\ tret[i].kind = "output") =>
               /\ tret[i].stdout = sanitize_output(from_utf8_lossy(tproc[i].out.stdout))
               /\ tret[i].stderr = sanitize_output(from_utf8_lossy(tproc[i].out.stderr))
               /\ tret[i].exit_code = IF tproc[i].out.status.some
                                      THEN tproc[i].out.status.v ELSE -1

\* C6: under any interleaving, last_command is the initial empty string or
\* the whole joined argument vector of one invocation that has written it;
\* at most one task is inside the critical section; a returned result is
\* built from the task's own subprocess; and every invocation whose
\* subprocess exits returns.
C6_SerializedWrites ==
    /\ []C6_StateInv
    /\ \A i \in Tasks : (pc[i] = "exited") ~> (pc[i] = "returned")

\* both invocations returned their own outputs after writing in turn
C6_Witness ==
    /\ pc[1] = "returned" /\ pc[2] = "returned"
    /\ tret[1].kind = "output" /\ tret[2].kind = "output"
    /\ targs[1] # targs[2]
    /\ tproc[1].out # tproc[2].out
    /\ last_command = <<"g", "a", "s">>

\* C7: the mutex is owned only between lock() and the end of the update,
\* never by a task waiting for its subprocess; so while one invocation
\* waits on a subprocess that never exits, any other invocation whose
\* subprocess has exited still locks, writes and returns.
C7_LockNotHeldAcrossWait ==
    /\ [](\A i \in Tasks : /\ pc[i] \in {"idle", "waiting", "exited"} => holder # i
                           /\ holder = i => pc[i] \in {"locked", "written"})
    /\ \A i \in Tasks : \A j \in Tasks \ {i} :
           (pc[j] = "waiting" /\ pc[i] = "exited")
               ~> (pc[i] = "returned" /\ tret[i].kind = "output")

\* task 2 has returned while task 1 still waits for its subprocess
C7_Witness ==
    /\ pc[1] = "waiting"
    /\ pc[2] = "returned" /\ tret[2].kind = "output"
    /\ last_command = join(targs[2])
    /\ holder = 0

\* ------------------------------------------------------------------
\* Claims about the decoder
\* ------------------------------------------------------------------
\* C10: parse_keys never fails; when the whole text is a JSON array it
\* returns the array's elements, one record each, in order; otherwise,
\* also when the text is some other JSON document, it returns one raw-line
\* record for each line containing "0x", in line order, and nothing else.
C10_ArrayOrRawLines ==
    stage = "parsed" =>
        LET doc   == from_str(text)
            ls    == Lines(text)
            hits  == {i \in 1 .. Len(ls) : Contains(ls[i], <<"0", "x">>)}
            nth(n) == CHOOSE i \in hits : Cardinality({j \in hits : j <= i}) = n
        IN  /\ keys.ok
            /\ (doc.ok /\ doc.val.k = "arr") =>
                   /\ Len(keys.val) = Len(doc.val.v)
                   /\ \A n \in 1 .. Len(keys.val) : keys.val[n] = doc.val.v[n]
            /\ ~(doc.ok /\ doc.val.k = "arr") =>
                   /\ Len(keys.val) = Cardinality(hits)
                   /\ \A n \in 1 .. Len(keys.val) :
                          keys.val[n] =
                              [k |-> "obj", v |-> << <<"raw", [k |-> "str", v |-> ls[nth(n)]]>> >>]

\* a JSON document that is not an array, on a line containing "0x"
C10_Witness ==
    /\ stage = "parsed"
    /\ text = <<"\"", "0", "x", "\"">>
    /\ from_str(text).ok
    /\ Len(keys.val) = 1
    /\ keys.val[1].v[1][2].v = text

====
